---- MODULE Spec2Model ----
(***************************************************************************)
(* ProjectPackageJson (packages/cli-core/src/services/ProjectPackageJson.ts)*)
(* as a state machine: the in-memory manifest `raw`, the two dirty flags,   *)
(* the manifest files on disk, and the task list that install() builds and  *)
(* the task orchestrator runs.                                              *)
(*                                                                          *)
(* Representation.                                                          *)
(*  - Package names and version specifiers are sequences of one-character   *)
(*    strings, so that semver.valid, the key comparison of sortKeys and     *)
(*    join("@") are computed and not tabulated.                             *)
(*  - A JS object whose key order matters (dependencies, devDependencies,   *)
(*    peerDependencies, scripts) is a sequence of <<key, value>> pairs with *)
(*    distinct keys, in insertion order (no key is an array index).         *)
(*  - The manifest object itself is a function from its top-level keys; a   *)
(*    key outside the DOMAIN is an undefined property. Its top-level key    *)
(*    order is not modelled: no operation of the class reorders it.         *)
(*  - A file's content is the JSON document JSON.stringify produces:        *)
(*    the same shape as the manifest object.                                *)
(*  - An optional value is a set with at most one element.                  *)
(***************************************************************************)
EXTENDS Integers, Sequences, FiniteSets, TLC

VARIABLES
  raw,        \* this.raw
  rewrite,    \* this.rewrite
  reinstall,  \* this.reinstall
  rootDir,    \* configuration.project.rootDir
  disk,       \* directory -> optional content of <directory>/package.json
  isInit,     \* process.argv.includes("init")
  phase,      \* task list of install(): "idle", "built", "running", "done", "failed"
  status,     \* per task of the list: "pending", "running", "done", "skipped", "disabled", "failed"
  given,      \* the options the caller passed to the last install() call
  probe,      \* optional: whether that call's `yarn --version` probe succeeded
  tasks,      \* what the closures of the task list captured when install() built it
  listrOpts,  \* the options install() handed to createTasks
  commands,   \* the subprocess invocations of the current install cycle, in order
  thrown,     \* optional: the error the failing step's own call raised
  surfaced,   \* optional: the error the task list's run rejected with
  lastOp,     \* the last operation performed
  preWrite,   \* optional: this.raw as the last write() found it, and whether it succeeded
  written,    \* contents handed to writeFileSync by the latest consecutive write() calls
  nops,       \* number of caller operations so far
  ninstalls   \* number of install() calls so far

vars == <<raw, rewrite, reinstall, rootDir, disk, isInit, phase, status, given, probe,
          tasks, listrOpts, commands, thrown, surfaced, lastOp, preWrite,
          written, nops, ninstalls>>

(***************************************************************************)
(* Bounds of the model.                                                    *)
(***************************************************************************)
MaxOps == 2
MaxInstalls == 1

(***************************************************************************)
(* Strings as character sequences.                                         *)
(***************************************************************************)
Digits == {"0", "1", "2", "3", "4", "5", "6", "7", "8", "9"}

\* UTF-16 code unit of the characters the model uses (what `<` on strings compares).
CharCode(c) ==
  CASE c = "." -> 46
    [] c = "0" -> 48
    [] c = "1" -> 49
    [] c = "2" -> 50
    [] c = "3" -> 51
    [] c = "4" -> 52
    [] c = "5" -> 53
    [] c = "6" -> 54
    [] c = "7" -> 55
    [] c = "8" -> 56
    [] c = "9" -> 57
    [] c = "@" -> 64
    [] c = "^" -> 94
    [] c = "a" -> 97
    [] c = "b" -> 98
    [] c = "e" -> 101
    [] c = "l" -> 108
    [] c = "n" -> 110
    [] c = "s" -> 115
    [] c = "t" -> 116
    [] c = "v" -> 118
    [] c = "x" -> 120
    [] c = "~" -> 126

\* s < t for JS strings: lexicographic by code unit, a proper prefix is smaller.
RECURSIVE StrLess(_, _)
StrLess(s, t) ==
  IF t = <<>> THEN FALSE
  ELSE IF s = <<>> THEN TRUE
  ELSE IF CharCode(Head(s)) < CharCode(Head(t)) THEN TRUE
  ELSE IF CharCode(Head(s)) > CharCode(Head(t)) THEN FALSE
  ELSE StrLess(Tail(s), Tail(t))

PkgA == <<"a">>
PkgB == <<"b">>
PkgAB == <<"a", "b">>

V100 == <<"1", ".", "0", ".", "0">>
VCaret == <<"^", "1", ".", "0", ".", "0">>
VLatest == <<"l", "a", "t", "e", "s", "t">>
VNext == <<"n", "e", "x", "t">>

(***************************************************************************)
(* semver.valid(version): non-null exactly when the string is a strict     *)
(* semantic version, v?MAJOR.MINOR.PATCH with numeric identifiers without  *)
(* leading zeros. (Prerelease and build suffixes need "-" and "+", which   *)
(* no version of the model contains.) A range such as ^1.0.0 is not one.   *)
(***************************************************************************)
IsNumericIdentifier(s) ==
  /\ Len(s) >= 1
  /\ \A i \in 1..Len(s) : s[i] \in Digits
  /\ (Len(s) > 1 => s[1] # "0")

\* The positions of "." in s.
DotPositions(s) == {i \in 1..Len(s) : s[i] = "."}

IsMainVersion(s) ==
  /\ Cardinality(DotPositions(s)) = 2
  /\ \E i, j \in DotPositions(s) :
       /\ i < j
       /\ IsNumericIdentifier(SubSeq(s, 1, i - 1))
       /\ IsNumericIdentifier(SubSeq(s, i + 1, j - 1))
       /\ IsNumericIdentifier(SubSeq(s, j + 1, Len(s)))

IsFullVersion(s) ==
  IF s # <<>> /\ Head(s) = "v"
  THEN IsMainVersion(Tail(s))
  ELSE IsMainVersion(s)

\* semver.validRange(version) # null, for the range operators of the model:
\* a version, or a caret or tilde range over a version.
SemverValidRange(version) ==
  \/ IsFullVersion(version)
  \/ /\ version # <<>>
     /\ Head(version) \in {"^", "~"}
     /\ IsFullVersion(Tail(version))

\* semver.valid(version) # null
SemverValid(version) == IsFullVersion(version)

(***************************************************************************)
(* Ordered objects.                                                        *)
(***************************************************************************)
Keys(obj) == {obj[i][1] : i \in 1..Len(obj)}

\* An assignment that appends the entry even when the key exists.
ObjSetAppend(obj, key, value) == Append(obj, <<key, value>>)

\* obj[key] = value: an existing key keeps its position, a new key is appended.
ObjSet(obj, key, value) ==
  IF key \in Keys(obj)
  THEN [i \in 1..Len(obj) |-> IF obj[i][1] = key THEN <<key, value>> ELSE obj[i]]
  ELSE Append(obj, <<key, value>>)

(***************************************************************************)
(* The module-level helpers of ProjectPackageJson.ts.                      *)
(***************************************************************************)
\* Array.prototype.sort step with the comparator k1[0] < k2[0] ? -1 : 1:
\* entry e goes before the first entry whose key is not smaller than its own.
RECURSIVE InsertEntry(_, _)
InsertEntry(sorted, e) ==
  IF sorted = <<>> THEN <<e>>
  ELSE IF StrLess(e[1], Head(sorted)[1]) THEN <<e>> \o sorted
  ELSE <<Head(sorted)>> \o InsertEntry(Tail(sorted), e)

RECURSIVE SortEntries(_)
SortEntries(entries) ==
  IF entries = <<>> THEN <<>>
  ELSE InsertEntry(SortEntries(SubSeq(entries, 1, Len(entries) - 1)),
                   entries[Len(entries)])

\* A sortKeys that forgot to sort.
sortKeysUnsorted(obj) == obj

sortKeys(obj) == SortEntries(obj)

IsValidEntry(e) == SemverValid(e[2])

IsInvalidEntry(e) == ~SemverValid(e[2])

\* A filter that keeps every entry.
mapPackagesKeepAll(deps) == deps

mapPackagesWithValidVersion(deps) == SelectSeq(deps, IsValidEntry)

\* A toString that joins name and version whatever the version is.
TargetToStringJoin(info) == info[1] \o <<"@">> \o info[2]

\* toString of mapPackagesWithInvalidVersion
TargetToString(info) ==
  IF info[2] = VLatest THEN info[1] ELSE info[1] \o <<"@">> \o info[2]

\* A complement that tests the version with semver.validRange.
mapPackagesOutsideRange(deps) ==
  LET invalid == SelectSeq(deps, LAMBDA e : ~SemverValidRange(e[2]))
  IN  [i \in 1..Len(invalid) |-> IF invalid[i][2] = VLatest THEN invalid[i][1]
                                 ELSE invalid[i][1] \o <<"@">> \o invalid[i][2]]

mapPackagesWithInvalidVersion(deps) ==
  LET invalid == SelectSeq(deps, IsInvalidEntry)
  IN  [i \in 1..Len(invalid) |-> TargetToString(invalid[i])]

ConfigurationName == "proj"

getEmptyPackageJson ==
  [name |-> ConfigurationName, version |-> "1.0.0", description |-> "",
   scripts |-> <<>>, dependencies |-> <<>>, devDependencies |-> <<>>]

\* {...a, ...b}
Spread(a, b) ==
  [k \in DOMAIN a \cup DOMAIN b |-> IF k \in DOMAIN b THEN b[k] ELSE a[k]]

Dirs == {"/w", "/w/p"}

\* read-pkg-up: the closest package.json at or above cwd, if any.
readPkgUp(fs, cwd) ==
  IF fs[cwd] # {} THEN {[path |-> cwd, packageJson |-> CHOOSE c \in fs[cwd] : TRUE]}
  ELSE IF cwd = "/w/p" /\ fs["/w"] # {}
       THEN {[path |-> "/w", packageJson |-> CHOOSE c \in fs["/w"] : TRUE]}
       ELSE {}

useReadPkgUp(fs, dir, init) == ~(init /\ fs[dir] = {})

getPackageJson(fs, dir, init) ==
  IF useReadPkgUp(fs, dir, init) /\ readPkgUp(fs, dir) # {}
  THEN Spread(getEmptyPackageJson, (CHOOSE r \in readPkgUp(fs, dir) : TRUE).packageJson)
  ELSE getEmptyPackageJson

(***************************************************************************)
(* Inputs.                                                                 *)
(***************************************************************************)
\* Manifest files that may exist when the service is constructed.
FileFull ==
  [name |-> "app", version |-> "1.0.0", description |-> "", scripts |-> <<>>,
   dependencies |-> <<<<PkgB, V100>>, <<PkgA, V100>>>>, devDependencies |-> <<>>]

FilePartial ==
  [name |-> "app", dependencies |-> <<<<PkgB, VCaret>>, <<PkgA, V100>>>>]

FileParent == [name |-> "mono"]

\* <<file in /w/p, file in /w, the command is init>>
InitialFiles ==
  {<<{}, {FileParent}, TRUE>>, <<{}, {FileParent}, FALSE>>,
   <<{FileFull}, {}, FALSE>>, <<{FilePartial}, {FileParent}, FALSE>>}

\* Values a caller passes to set(key, value) and add(key, data).
DepMaps == {<<<<PkgB, V100>>, <<PkgAB, V100>>, <<PkgA, VLatest>>>>}

FieldKeys == {"dependencies", "devDependencies", "peerDependencies", "name"}

AddKeys == {"dependencies"}

FieldValues(key) ==
  IF key = "name" THEN {"x"} ELSE DepMaps

\* Arguments a caller passes to addDependency and addDevDependency.
DepInputs ==
  {<<PkgB, V100>>, <<PkgA, VCaret>>, <<PkgA, VLatest>>}

DevDepInputs == {<<PkgB, VNext>>}

\* Version templates and scope objects given to addDependencies and
\* addDevDependencies.
V200 == <<"2", ".", "0", ".", "0">>

TemplateX == <<"{", "{", "x", "}", "}">>

TemplateCaretX == <<"^">> \o TemplateX

TemplateY == <<"{", "{", "y", "}", "}">>

TemplatePath == <<"{", "{", "t", ".", "v", "}", "}">>

TemplateN == <<"{", "{", "n", "}", "}">>

TemplateTsed ==
  <<"{", "{", "t", "s", "e", "d", "V", "e", "r", "s", "i", "o", "n", "}", "}">>

ScopeX ==
  (<<"x">> :> [kind |-> "str", val |-> V200])
    @@ (<<"n">> :> [kind |-> "str", val |-> VNext])
    @@ (<<"t">> :> [kind |-> "obj", val |-> (<<"v">> :> [kind |-> "str", val |-> V100])])

CtxTsed ==
  <<"t", "s", "e", "d", "V", "e", "r", "s", "i", "o", "n">>
    :> [kind |-> "str", val |-> V100]

Scopes == {<<>>, ScopeX, CtxTsed}

TemplateModules ==
  {<<<<PkgA, TemplateX>>>>,
   <<<<PkgB, TemplatePath>>, <<PkgA, TemplateY>>>>,
   <<<<PkgA, TemplateTsed>>>>,
   <<<<PkgB, TemplateCaretX>>>>,
   <<<<PkgA, V100>>, <<PkgB, VLatest>>>>}

\* The bulk calls of the manifest's state machine.
PlainModules == {<<<<PkgB, TemplatePath>>>>}

PlainDevModules == {<<<<PkgB, TemplateN>>>>}

ScriptNames == {"build"}
ScriptCmds == {"tsc"}

\* InstallOptions a caller passes: packageManager, verbose and concurrent are each
\* optional. (The orchestrator's failure-isolation option is never passed.)
OptionsSet ==
  {<<>>,
   [packageManager |-> "yarn", verbose |-> TRUE],
   [packageManager |-> "npm", concurrent |-> TRUE]}

\* Errors a subprocess call fails with. stderr is a sequence of words.
LockSignature == <<"error", "Your", "lockfile", "needs", "to", "be", "updated">>

ExecErrors ==
  {[type |-> "ExecaError", stderr |-> LockSignature \o <<"Run", "yarn">>],
   [type |-> "ExecaError", stderr |-> <<"warning">> \o LockSignature],
   [type |-> "ExecaError", stderr |-> <<>>],
   [type |-> "StreamError"]}

FsError == [type |-> "FsError"]

TaskIds == 1..5
TaskWriteId == 1
TaskInstallId == 2
TaskAddId == 3
TaskAddDevId == 4
TaskCleanId == 5

NoTasks == [backend |-> "none", deps |-> <<>>, devDeps |-> <<>>, cwd |-> "", verbose |-> FALSE]

(***************************************************************************)
(* Initial state: the constructor runs read().                             *)
(***************************************************************************)
Init ==
  /\ rootDir = "/w/p"
  /\ \E fg \in InitialFiles :
       /\ disk = [d \in Dirs |-> IF d = "/w/p" THEN fg[1] ELSE fg[2]]
       /\ isInit = fg[3]
  /\ raw = getPackageJson(disk, rootDir, isInit)
  /\ rewrite = FALSE
  /\ reinstall = FALSE
  /\ phase = "idle"
  /\ status = [i \in TaskIds |-> "pending"]
  /\ given = <<>>
  /\ probe = {}
  /\ tasks = NoTasks
  /\ listrOpts = [concurrent |-> FALSE]
  /\ commands = <<>>
  /\ thrown = {}
  /\ surfaced = {}
  /\ lastOp = [name |-> "constructor"]
  /\ preWrite = {}
  /\ written = <<>>
  /\ nops = 0
  /\ ninstalls = 0

\* A caller's operation leaves a task list that was built and not yet run as it
\* is; after a finished run the list is gone.
KeepPipeline ==
  IF phase = "built"
  THEN UNCHANGED <<phase, status, given, probe, tasks, listrOpts, commands, thrown,
                   surfaced>>
  ELSE /\ phase' = "idle"
       /\ status' = [i \in TaskIds |-> "pending"]
       /\ given' = <<>>
       /\ probe' = {}
       /\ tasks' = NoTasks
       /\ listrOpts' = [concurrent |-> FALSE]
       /\ commands' = <<>>
       /\ thrown' = {}
       /\ surfaced' = {}

\* Bookkeeping of a caller's operation.
CallerOp(op) ==
  /\ phase # "running"
  /\ nops < MaxOps
  /\ nops' = nops + 1
  /\ lastOp' = op
  /\ UNCHANGED ninstalls
  /\ KeepPipeline

(***************************************************************************)
(* Mutators.                                                               *)
(***************************************************************************)
addDevDependency(pkg, version) ==
  /\ CallerOp([name |-> "addDevDependency", pkg |-> pkg, version |-> version])
  /\ raw' = [raw EXCEPT !.devDependencies = ObjSet(@, pkg, version)]
  /\ reinstall' = TRUE
  /\ rewrite' = TRUE
  /\ written' = <<>>
  /\ preWrite' = {}
  /\ UNCHANGED <<rootDir, disk, isInit>>

addDependency(pkg, version) ==
  /\ CallerOp([name |-> "addDependency", pkg |-> pkg, version |-> version])
  /\ raw' = [raw EXCEPT !.dependencies = ObjSet(@, pkg, version)]
  /\ reinstall' = TRUE
  /\ rewrite' = TRUE
  /\ written' = <<>>
  /\ preWrite' = {}
  /\ UNCHANGED <<rootDir, disk, isInit>>

addScript(task, cmd) ==
  /\ CallerOp([name |-> "addScript", task |-> task, cmd |-> cmd])
  /\ raw' = [raw EXCEPT !.scripts = ObjSet(@, task, cmd)]
  /\ rewrite' = TRUE
  /\ written' = <<>>
  /\ preWrite' = {}
  /\ UNCHANGED <<reinstall, rootDir, disk, isInit>>

add(key, data) ==
  /\ CallerOp([name |-> "add", key |-> key])
  /\ raw' = Spread(raw, key :> data)
  /\ rewrite' = TRUE
  /\ written' = <<>>
  /\ preWrite' = {}
  /\ UNCHANGED <<reinstall, rootDir, disk, isInit>>

\* The keys whose assignment through set() asks for a reinstall.
ReinstallKeysNoPeer == {"dependencies", "devDependencies"}

\* A set of dependency keys that forgot peerDependencies and devDependencies.
ReinstallKeysOnlyDeps == {"dependencies"}

ReinstallKeys == {"dependencies", "devDependencies", "peerDependencies"}

set(key, value) ==
  /\ CallerOp([name |-> "set", key |-> key])
  /\ raw' = Spread(raw, key :> value)
  /\ rewrite' = TRUE
  /\ reinstall' = IF key \in ReinstallKeys THEN TRUE ELSE reinstall
  /\ written' = <<>>
  /\ preWrite' = {}
  /\ UNCHANGED <<rootDir, disk, isInit>>

(***************************************************************************)
(* Version templates: addDependencies(), addDevDependencies().              *)
(***************************************************************************)
\* The characters of [\w.].
TokenChars ==
  {"a", "b", "c", "d", "e", "f", "i", "n", "o", "r", "s", "t", "u", "v", "x", "y",
   "V", "_", "."} \cup Digits

\* String(undefined).
Undefined == <<"u", "n", "d", "e", "f", "i", "n", "e", "d">>

\* String(value) of an object.
ObjectString ==
  <<"[", "o", "b", "j", "e", "c", "t", " ", "O", "b", "j", "e", "c", "t", "]">>

TsedVersionKey == <<"t", "s", "e", "d", "V", "e", "r", "s", "i", "o", "n">>

\* The pattern of the first replace() of addDependencies.
TsedVersionToken == <<"{", "{">> \o TsedVersionKey \o <<"}", "}">>

\* A value of a scope object: a string or a nested object.
Str(chars) == [kind |-> "str", val |-> chars]

Obj(scope) == [kind |-> "obj", val |-> scope]

\* String(value) of an optional value, as String.prototype.replace converts
\* its replacement.
StringOf(value) ==
  IF value = {} THEN Undefined
  ELSE LET v == CHOOSE n \in value : TRUE
       IN  IF v.kind = "str" THEN v.val ELSE ObjectString

\* s.indexOf(pat) + 1, 0 when pat does not occur.
IndexOf(s, pat) ==
  LET hits == {i \in 1..(Len(s) - Len(pat) + 1) : SubSeq(s, i, i + Len(pat) - 1) = pat}
  IN  IF hits = {} THEN 0 ELSE CHOOSE i \in hits : \A j \in hits : i <= j

\* s.replace(pat, rep) with a string pattern: the first occurrence only.
ReplaceFirst(s, pat, rep) ==
  LET i == IndexOf(s, pat)
  IN  IF i = 0 THEN s
      ELSE SubSeq(s, 1, i - 1) \o rep \o SubSeq(s, i + Len(pat), Len(s))

\* expression.split(".")
RECURSIVE SplitDots(_)
SplitDots(s) ==
  LET i == IndexOf(s, <<".">>)
  IN  IF i = 0 THEN <<s>>
      ELSE <<SubSeq(s, 1, i - 1)>> \o SplitDots(SubSeq(s, i + 1, Len(s)))

\* scope[key] of an optional value; a string has no property of these names.
Property(value, key) ==
  IF value = {} THEN {}
  ELSE LET v == CHOOSE n \in value : TRUE
       IN  IF v.kind = "obj" /\ key \in DOMAIN v.val THEN {v.val[key]} ELSE {}

\* The loop of getValue: while ((scope = scope[keys.shift()]) && keys.length) {}
\* It stops at an undefined or empty value and at the last key.
RECURSIVE Walk(_, _)
Walk(value, keys) ==
  LET next == Property(value, Head(keys))
  IN  IF next = {} \/ next = {Str(<<>>)} \/ Len(keys) = 1 THEN next
      ELSE Walk(next, Tail(keys))

\* getValue(expression, scope) of @tsed/core, without a default value: the
\* value under the dotted path, or undefined.
getValue(expression, scope) == Walk({Obj(scope)}, SplitDots(expression))

\* The end of the match of /{{([\w.]+)}}/ that starts at position i of s, 0 when
\* there is none.
MatchEnd(s, i) ==
  IF i + 1 > Len(s) \/ s[i] # "{" \/ s[i + 1] # "{" THEN 0
  ELSE LET stops == {j \in (i + 2)..Len(s) : s[j] \notin TokenChars}
           stop == IF stops = {} THEN Len(s) + 1
                   ELSE CHOOSE j \in stops : \A k \in stops : j <= k
       IN  IF stop > i + 2 /\ stop + 1 <= Len(s) /\ s[stop] = "}" /\ s[stop + 1] = "}"
           THEN stop + 1
           ELSE 0

\* The text that replace() inserts for a match: String(replacer(match, key)).
Replacer(key, scope) == StringOf(getValue(key, scope))

\* s.replace(/{{([\w.]+)}}/gi, replacer) from position i on.
RECURSIVE ReplaceTokensFrom(_, _, _)
ReplaceTokensFrom(s, i, scope) ==
  IF i > Len(s) THEN <<>>
  ELSE LET end == MatchEnd(s, i)
       IN  IF end = 0 THEN <<s[i]>> \o ReplaceTokensFrom(s, i + 1, scope)
           ELSE Replacer(SubSeq(s, i + 2, end - 2), scope)
                  \o ReplaceTokensFrom(s, end + 1, scope)

ReplaceTokens(s, scope) == ReplaceTokensFrom(s, 1, scope)

\* ctx.tsedVersion as the replacement of the first replace() of addDependencies.
TsedVersionOf(ctx) ==
  StringOf(IF TsedVersionKey \in DOMAIN ctx THEN {ctx[TsedVersionKey]} ELSE {})

\* The version addDependencies stores for a template.
DependencyVersion(version, ctx) ==
  ReplaceTokens(ReplaceFirst(version, TsedVersionToken, TsedVersionOf(ctx)), ctx)

\* The version addDevDependencies stores for a template.
DevDependencyVersion(version, scope) == ReplaceTokens(version, scope)

\* The map after the forEach of addDependencies over the first n modules.
RECURSIVE AddAll(_, _, _, _)
AddAll(obj, modules, n, ctx) ==
  IF n = 0 THEN obj
  ELSE ObjSet(AddAll(obj, modules, n - 1, ctx), modules[n][1],
              DependencyVersion(modules[n][2], ctx))

\* The map after the forEach of addDevDependencies over the first n modules.
RECURSIVE AddAllDev(_, _, _, _)
AddAllDev(obj, modules, n, scope) ==
  IF n = 0 THEN obj
  ELSE ObjSet(AddAllDev(obj, modules, n - 1, scope), modules[n][1],
              DevDependencyVersion(modules[n][2], scope))

addDependencies(modules, ctx) ==
  /\ CallerOp([name |-> "addDependencies", modules |-> modules, scope |-> ctx])
  /\ raw' = [raw EXCEPT !.dependencies = AddAll(@, modules, Len(modules), ctx)]
  /\ reinstall' = IF modules = <<>> THEN reinstall ELSE TRUE
  /\ rewrite' = IF modules = <<>> THEN rewrite ELSE TRUE
  /\ written' = <<>>
  /\ preWrite' = {}
  /\ UNCHANGED <<rootDir, disk, isInit>>

addDevDependencies(modules, scope) ==
  /\ CallerOp([name |-> "addDevDependencies", modules |-> modules, scope |-> scope])
  /\ raw' = [raw EXCEPT !.devDependencies = AddAllDev(@, modules, Len(modules), scope)]
  /\ reinstall' = IF modules = <<>> THEN reinstall ELSE TRUE
  /\ rewrite' = IF modules = <<>> THEN rewrite ELSE TRUE
  /\ written' = <<>>
  /\ preWrite' = {}
  /\ UNCHANGED <<rootDir, disk, isInit>>

(***************************************************************************)
(* runScript().                                                            *)
(***************************************************************************)
\* The outcomes of cliExeca.run("npm", ["run", npmTask], options): a result, or
\* a failure.
ScriptError == [stderr |-> <<"npm", "ERR!", "missing", "script">>]

RunOutcomes == {[values |-> <<"done">>, error |-> {}],
                [values |-> <<>>, error |-> {ScriptError}]}

\* An errorPipe that swallows the error whatever ignoreError is.
runScriptPipeSwallow(ignoreError, source) == [source EXCEPT !.error = {}]

\* catchError(error => ignoreError ? EMPTY : throwError(error)) on the source:
\* what the subscriber of runScript() observes.
runScriptPipe(ignoreError, source) ==
  IF source.error # {} /\ ignoreError THEN [source EXCEPT !.error = {}] ELSE source

runScript(npmTask, ignoreError, source) ==
  /\ CallerOp([name |-> "runScript",
               command |-> [cmd |-> "npm", args |-> <<"run", npmTask>>, cwd |-> rootDir],
               ignoreError |-> ignoreError,
               source |-> source,
               observed |-> runScriptPipe(ignoreError, source)])
  /\ written' = <<>>
  /\ preWrite' = {}
  /\ UNCHANGED <<raw, rewrite, reinstall, rootDir, disk, isInit>>

(***************************************************************************)
(* read(), the dir setter, write().                                        *)
(***************************************************************************)
read ==
  /\ CallerOp([name |-> "read"])
  /\ raw' = getPackageJson(disk, rootDir, isInit)
  /\ written' = <<>>
  /\ UNCHANGED <<rewrite, reinstall, rootDir, disk, isInit, preWrite>>

setDir(dir) ==
  /\ CallerOp([name |-> "setDir"])
  /\ rootDir' = dir
  /\ raw' = getPackageJson(disk, dir, isInit)
  /\ written' = <<>>
  /\ preWrite' = {}
  /\ UNCHANGED <<rewrite, reinstall, disk, isInit>>

\* this.raw after the two sortKeys assignments of write().
WriteSortedRaw(r) ==
  [r EXCEPT !.devDependencies = sortKeys(@), !.dependencies = sortKeys(@)]

\* A write() that serializes the manifest as it was before sorting it.
WriteJsonBeforeSort(r) ==
  Spread(r, [dependencies |-> mapPackagesWithValidVersion(r.dependencies),
             devDependencies |-> mapPackagesWithValidVersion(r.devDependencies)])

\* The document write() serializes, from this.raw as write() found it.
WriteJson(r) ==
  LET sorted == WriteSortedRaw(r)
  IN  Spread(sorted,
             [dependencies |-> mapPackagesWithValidVersion(sorted.dependencies),
              devDependencies |-> mapPackagesWithValidVersion(sorted.devDependencies)])

\* The last two contents of consecutive write() calls.
Remember(w, json) == IF w = <<>> THEN <<json>> ELSE <<w[Len(w)], json>>

\* The body of write(); fsOk = FALSE: writeFileSync throws.
WriteBody(fsOk) ==
  /\ raw' = WriteSortedRaw(raw)
  /\ rewrite' = FALSE
  /\ disk' = IF fsOk THEN [disk EXCEPT ![rootDir] = {WriteJson(raw)}] ELSE disk
  /\ preWrite' = {[raw |-> raw, ok |-> fsOk]}
  /\ written' = Remember(written, WriteJson(raw))

write(fsOk) ==
  /\ CallerOp([name |-> "write", ok |-> fsOk])
  /\ WriteBody(fsOk)
  /\ UNCHANGED <<reinstall, rootDir, isInit>>

Mutate ==
  \/ \E d \in DepInputs : addDependency(d[1], d[2])
  \/ \E d \in DevDepInputs : addDevDependency(d[1], d[2])
  \/ \E modules \in PlainModules : addDependencies(modules, ScopeX)
  \/ \E modules \in PlainDevModules : addDevDependencies(modules, ScopeX)
  \/ \E task \in ScriptNames, cmd \in ScriptCmds : addScript(task, cmd)
  \/ \E key \in AddKeys : \E data \in FieldValues(key) : add(key, data)
  \/ \E key \in FieldKeys : \E value \in FieldValues(key) : set(key, value)

(***************************************************************************)
(* install(): backend selection and the task list.                         *)
(***************************************************************************)
\* options.packageManager || "yarn"
RequestedPackageManager(opts) ==
  IF "packageManager" \in DOMAIN opts THEN opts.packageManager ELSE "yarn"

\* hasYarn(): the probe's exception becomes false.
hasYarn(probeOk) == probeOk

ProbeCommand == [cmd |-> "yarn", flags |-> <<"--version">>, targets |-> <<>>]

\* The subprocess calls install() itself makes: `&&` evaluates hasYarn() only
\* when yarn is requested.
ProbeCommands(opts) ==
  IF RequestedPackageManager(opts) = "yarn" THEN <<ProbeCommand>> ELSE <<>>

\* An install() that does not downgrade on a failed probe.
ActualPackageManagerNoProbe(opts, probeOk) == RequestedPackageManager(opts)

\* options.packageManager after the downgrade test of install().
ActualPackageManager(opts, probeOk) ==
  IF RequestedPackageManager(opts) = "yarn" /\ ~hasYarn(probeOk)
  THEN "npm"
  ELSE RequestedPackageManager(opts)

\* The destructured {verbose}.
Verbose(opts) == "verbose" \in DOMAIN opts /\ opts.verbose

installWithYarn(opts) ==
  [backend |-> "yarn",
   devDeps |-> mapPackagesWithInvalidVersion(raw.devDependencies),
   deps |-> mapPackagesWithInvalidVersion(raw.dependencies),
   cwd |-> rootDir, verbose |-> Verbose(opts)]

installWithNpm(opts) ==
  [backend |-> "npm",
   devDeps |-> mapPackagesWithInvalidVersion(raw.devDependencies),
   deps |-> mapPackagesWithInvalidVersion(raw.dependencies),
   cwd |-> rootDir, verbose |-> Verbose(opts)]

\* verbose && "--verbose", after filter(Boolean)
VerboseFlag(t) == IF t.verbose THEN <<"--verbose">> ELSE <<>>

\* The invocation of task i of the yarn list: the argument array is flags \o targets.
YarnCommand(t, i) ==
  CASE i = TaskInstallId ->
         [cmd |-> "yarn", flags |-> <<"install", "--production=false">> \o VerboseFlag(t),
          targets |-> <<>>, cwd |-> t.cwd]
    [] i = TaskAddId ->
         [cmd |-> "yarn", flags |-> <<"add">> \o VerboseFlag(t),
          targets |-> t.deps, cwd |-> t.cwd]
    [] i = TaskAddDevId ->
         [cmd |-> "yarn", flags |-> <<"add", "-D">> \o VerboseFlag(t),
          targets |-> t.devDeps, cwd |-> t.cwd]

\* An npm list whose add-devDependencies task saves to dependencies.
NpmCommandNoDevFlag(t, i) ==
  CASE i = TaskInstallId ->
         [cmd |-> "npm", flags |-> <<"install", "--no-production">> \o VerboseFlag(t),
          targets |-> <<>>, cwd |-> t.cwd]
    [] i = TaskAddId ->
         [cmd |-> "npm", flags |-> <<"install", "--save">> \o VerboseFlag(t),
          targets |-> t.deps, cwd |-> t.cwd]
    [] i = TaskAddDevId ->
         [cmd |-> "npm", flags |-> <<"install", "--save">> \o VerboseFlag(t),
          targets |-> t.devDeps, cwd |-> t.cwd]

NpmCommand(t, i) ==
  CASE i = TaskInstallId ->
         [cmd |-> "npm", flags |-> <<"install", "--no-production">> \o VerboseFlag(t),
          targets |-> <<>>, cwd |-> t.cwd]
    [] i = TaskAddId ->
         [cmd |-> "npm", flags |-> <<"install", "--save">> \o VerboseFlag(t),
          targets |-> t.deps, cwd |-> t.cwd]
    [] i = TaskAddDevId ->
         [cmd |-> "npm", flags |-> <<"install", "--save-dev">> \o VerboseFlag(t),
          targets |-> t.devDeps, cwd |-> t.cwd]

TaskCommand(t, i) == IF t.backend = "yarn" THEN YarnCommand(t, i) ELSE NpmCommand(t, i)

\* Skip predicates that skip the bulk install whatever reinstall is.
TaskSkipBulkAlways(t, i) ==
  CASE i = TaskInstallId -> TRUE
    [] i = TaskAddId -> t.deps = <<>>
    [] i = TaskAddDevId -> t.devDeps = <<>>

\* Skip predicates that never skip.
TaskSkipNever(t, i) == FALSE

\* The skip predicates of the three package-manager tasks, the same in both lists.
TaskSkip(t, i) ==
  CASE i = TaskInstallId -> ~reinstall
    [] i = TaskAddId -> t.deps = <<>>
    [] i = TaskAddDevId -> t.devDeps = <<>>

StartsWith(str, prefix) ==
  Len(str) >= Len(prefix) /\ SubSeq(str, 1, Len(prefix)) = prefix

LockfileError ==
  [type |-> "Error",
   message |-> "yarn.lock file is outdated. Run yarn, commit the updated lockfile and try again."]

\* What evaluating error.stderr.startsWith throws when error.stderr is undefined.
TypeError == [type |-> "TypeError"]

\* An errorPipe that swallows the error, as runScript does under ignoreError.
errorPipeEmpty(error) == {}

\* An errorPipe that does not translate.
errorPipeRaw(error) == {error}

\* errorPipe of installWithYarn: the error the piped observable fails with
\* (none: it completes).
errorPipe(error) ==
  IF "stderr" \notin DOMAIN error THEN {TypeError}
  ELSE IF StartsWith(error.stderr, LockSignature) THEN {LockfileError}
  ELSE {error}

\* The failure of task i's observable when its subprocess call fails with error:
\* the yarn tasks pipe it through errorPipe, the npm tasks do not.
TaskFailure(t, error) == IF t.backend = "yarn" THEN errorPipe(error) ELSE {error}

\* A createTasks call that lets the caller's options override concurrent.
InstallTaskOptionsCallerWins(opts) == Spread([concurrent |-> FALSE], opts)

\* {...options, concurrent: false}
InstallTaskOptions(opts) == Spread(opts, [concurrent |-> FALSE])

install(opts, probeOk) ==
  /\ phase # "running"
  /\ ninstalls < MaxInstalls
  /\ ninstalls' = ninstalls + 1
  /\ probeOk \/ ProbeCommands(opts) # <<>>
  /\ LET pm == ActualPackageManager(opts, probeOk)
         o == Spread(opts, [packageManager |-> pm])
     IN  /\ given' = opts
         /\ probe' = IF ProbeCommands(opts) # <<>> THEN {hasYarn(probeOk)} ELSE {}
         /\ tasks' = IF pm = "yarn" THEN installWithYarn(o) ELSE installWithNpm(o)
         /\ listrOpts' = InstallTaskOptions(o)
  /\ commands' = ProbeCommands(opts)
  /\ phase' = "built"
  /\ status' = [i \in TaskIds |-> "pending"]
  /\ thrown' = {}
  /\ surfaced' = {}
  /\ lastOp' = [name |-> "install"]
  /\ written' = <<>>
  /\ UNCHANGED <<raw, rewrite, reinstall, rootDir, disk, isInit, preWrite, nops>>

(***************************************************************************)
(* The task orchestrator (createTasks and the run of its list).            *)
(***************************************************************************)
Completed(st) == st \in {"done", "skipped", "disabled"}

\* Task i may be taken up: in sequential mode once every task before it has
\* completed, in concurrent mode at once.
CanStart(i) ==
  /\ phase = "running"
  /\ status[i] = "pending"
  /\ (listrOpts.concurrent \/ \A j \in 1..(i - 1) : Completed(status[j]))

\* The run resolves when every task has completed.
NextPhase(st) == IF \A i \in TaskIds : Completed(st[i]) THEN "done" ELSE "running"

\* First failure: the run rejects with it and takes up no further task.
Fail(i, failure) ==
  /\ status' = [status EXCEPT ![i] = "failed"]
  /\ phase' = "failed"
  /\ surfaced' = {failure}

Succeed(i, st) ==
  /\ status' = [status EXCEPT ![i] = st]
  /\ phase' = NextPhase(status')
  /\ UNCHANGED surfaced

run ==
  /\ phase = "built"
  /\ phase' = "running"
  /\ lastOp' = [name |-> "run"]
  /\ UNCHANGED <<raw, rewrite, reinstall, rootDir, disk, isInit, status, given, probe, tasks,
                 listrOpts, commands, thrown, surfaced, preWrite, written, nops, ninstalls>>

\* Task "Write package.json": enabled: () => this.rewrite, task: () => this.write()
taskWrite(fsOk) ==
  /\ CanStart(TaskWriteId)
  /\ lastOp' = [name |-> "taskWrite"]
  /\ IF ~rewrite
     THEN /\ fsOk
          /\ Succeed(TaskWriteId, "disabled")
          /\ UNCHANGED <<raw, rewrite, disk, preWrite, written, thrown>>
     ELSE /\ WriteBody(fsOk)
          /\ thrown' = IF fsOk THEN thrown ELSE {FsError}
          /\ IF fsOk THEN Succeed(TaskWriteId, "done")
                     ELSE Fail(TaskWriteId, FsError)
  /\ UNCHANGED <<reinstall, rootDir, isInit, given, probe, tasks, listrOpts, commands, nops, ninstalls>>

\* A package-manager task is taken up: skipped, or its subprocess is started.
taskStart(i) ==
  /\ CanStart(i)
  /\ lastOp' = [name |-> "taskStart"]
  /\ IF TaskSkip(tasks, i)
     THEN /\ Succeed(i, "skipped")
          /\ UNCHANGED commands
     ELSE /\ status' = [status EXCEPT ![i] = "running"]
          /\ commands' = Append(commands, TaskCommand(tasks, i))
          /\ UNCHANGED <<phase, surfaced>>
  /\ UNCHANGED thrown
  /\ written' = <<>>
  /\ UNCHANGED <<raw, rewrite, reinstall, rootDir, disk, isInit, given, probe, tasks, listrOpts,
                 preWrite, nops, ninstalls>>

\* The subprocess of task i ends: outcome is empty on success, else holds its error.
taskFinish(i, outcome) ==
  /\ phase = "running"
  /\ status[i] = "running"
  /\ lastOp' = [name |-> "taskFinish"]
  /\ thrown' = IF outcome = {} THEN thrown ELSE outcome
  /\ IF outcome = {} \/ TaskFailure(tasks, CHOOSE e \in outcome : TRUE) = {}
     THEN Succeed(i, "done")
     ELSE Fail(i, CHOOSE f \in TaskFailure(tasks, CHOOSE e \in outcome : TRUE) : TRUE)
  /\ written' = <<>>
  /\ UNCHANGED <<raw, rewrite, reinstall, rootDir, disk, isInit, given, probe, tasks, listrOpts,
                 commands, preWrite, nops, ninstalls>>

\* A "Clean" task that does not re-read the manifest.
CleanRawNoRead(fs, dir, init) == raw

\* this.raw after the read() of the "Clean" task.
CleanRaw(fs, dir, init) == getPackageJson(fs, dir, init)

\* Task "Clean"
taskClean ==
  /\ CanStart(TaskCleanId)
  /\ lastOp' = [name |-> "taskClean"]
  /\ reinstall' = FALSE
  /\ rewrite' = FALSE
  /\ raw' = CleanRaw(disk, rootDir, isInit)
  /\ Succeed(TaskCleanId, "done")
  /\ UNCHANGED thrown
  /\ written' = <<>>
  /\ preWrite' = {}
  /\ UNCHANGED <<rootDir, disk, isInit, given, probe, tasks, listrOpts, commands, nops, ninstalls>>

Outcomes == {{}} \cup {{e} : e \in ExecErrors}

Pipeline ==
  \/ \E opts \in OptionsSet, probeOk \in BOOLEAN : install(opts, probeOk)
  \/ run
  \/ \E fsOk \in BOOLEAN : taskWrite(fsOk)
  \/ \E i \in {TaskInstallId, TaskAddId, TaskAddDevId} : taskStart(i)
  \/ \E i \in {TaskInstallId, TaskAddId, TaskAddDevId}, outcome \in Outcomes :
       taskFinish(i, outcome)
  \/ taskClean

Next ==
  \/ Mutate
  \/ read
  \/ \E dir \in Dirs \ {rootDir} : setDir(dir)
  \/ \E fsOk \in BOOLEAN : write(fsOk)
  \/ Pipeline

Spec == Init /\ [][Next]_vars

\* The calls that take a template or a script: every module map with every
\* scope, and every outcome of a script run.
Calls ==
  \/ \E modules \in TemplateModules, ctx \in Scopes : addDependencies(modules, ctx)
  \/ \E modules \in TemplateModules, scope \in Scopes :
       addDevDependencies(modules, scope)
  \/ \E npmTask \in ScriptNames, ignoreError \in BOOLEAN, source \in RunOutcomes :
       runScript(npmTask, ignoreError, source)

SpecCalls == Init /\ [][Calls]_vars

(***************************************************************************)
(* Properties.                                                             *)
(***************************************************************************)
Entries(obj) == {obj[i] : i \in 1..Len(obj)}

\* The keys of obj are in strictly ascending lexicographic order.
IsSortedByKey(obj) == \A i \in 1..(Len(obj) - 1) : StrLess(obj[i][1], obj[i + 1][1])

\* The last step was a write() that succeeded, called directly or as the
\* "Write package.json" task.
WroteOk ==
  \/ lastOp.name = "write" /\ lastOp.ok
  \/ lastOp.name = "taskWrite" /\ status[TaskWriteId] = "done"

\* The caller asked for yarn, explicitly or by giving no package manager.
AskedForYarn == "packageManager" \notin DOMAIN given \/ given.packageManager = "yarn"

\* The failing step's own error begins with the lockfile-staleness signature.
ThrownIsLockfileStale ==
  \E e \in thrown : "stderr" \in DOMAIN e /\ StartsWith(e.stderr, LockSignature)

\* C1: in every run of the task list of install(), whatever options the caller
\* passed (concurrent: true included), the list runs in sequential mode and a task
\* is taken up (started, skipped or left out) only when every task declared before
\* it (Write package.json, bulk install, add dependencies, add devDependencies,
\* Clean, in this order) has completed.
C1_StepsRunOneAtATimeInOrder ==
  /\ ~listrOpts.concurrent
  /\ \A j \in TaskIds :
       status[j] # "pending" => \A i \in 1..(j - 1) : Completed(status[i])

\* C1 witness: the caller passed concurrent: true, the bulk install has run to its
\* end and the add-dependencies command is running.
C1_Witness ==
  /\ "concurrent" \in DOMAIN given
  /\ given.concurrent
  /\ status[TaskInstallId] = "done"
  /\ status[TaskAddId] = "running"

\* C2: when an install cycle has run to completion without a failure, rewrite is
\* false, reinstall is false and the in-memory manifest is what read() yields from
\* the manifest file on disk.
C2_CompletedCycleIsClean ==
  phase = "done" =>
    /\ ~rewrite
    /\ ~reinstall
    /\ raw = getPackageJson(disk, rootDir, isInit)

\* C2 witness: a completed cycle that wrote the manifest and ran the bulk install
\* and the add-dependencies command (a placeholder entry was in memory).
C2_Witness ==
  /\ phase = "done"
  /\ status[TaskWriteId] = "done"
  /\ status[TaskInstallId] = "done"
  /\ status[TaskAddId] = "done"

\* C3: once a step of the install pipeline has failed, the run has failed with an
\* error surfaced to the caller, every task declared after the failing one is still
\* pending (Clean included); and the failing step neither clears reinstall nor
\* re-reads the manifest.
C3_FailureHaltsPipeline ==
  /\ [](thrown # {} =>
          /\ phase = "failed"
          /\ surfaced # {}
          /\ status[TaskCleanId] = "pending"
          /\ \E i \in TaskIds \ {TaskCleanId} :
               /\ status[i] = "failed"
               /\ \A j \in (i + 1)..TaskCleanId : status[j] = "pending")
  /\ [][thrown = {} /\ thrown' # {} =>
          /\ reinstall' = reinstall
          /\ raw' \in {raw, WriteSortedRaw(raw)}]_vars

\* C3 witness: the add-dependencies step failed after the bulk install had run.
C3_Witness ==
  /\ thrown # {}
  /\ status[TaskInstallId] = "done"
  /\ status[TaskAddId] = "failed"
  /\ reinstall

\* C4: the yarn task list is built if and only if the caller asked for yarn
\* (or for nothing) and the probe succeeded; with the npm list every command other
\* than the probe is an npm command; when npm is asked for no yarn command is run,
\* the probe included; and install() returns its list without an error whatever the
\* probe did.
C4_BackendSelection ==
  phase # "idle" =>
    /\ tasks.backend \in {"yarn", "npm"}
    /\ (tasks.backend = "yarn") <=> (AskedForYarn /\ probe = {TRUE})
    /\ tasks.backend = "npm" =>
         \A k \in 1..Len(commands) :
           commands[k] = ProbeCommand \/ commands[k].cmd = "npm"
    /\ ~AskedForYarn =>
         /\ probe = {}
         /\ \A k \in 1..Len(commands) : commands[k].cmd # "yarn"
    /\ AskedForYarn => probe # {} /\ commands[1] = ProbeCommand
    /\ phase = "built" => thrown = {} /\ surfaced = {}

\* C4 witness: yarn was asked for, the probe failed, and an npm command runs.
C4_Witness ==
  /\ AskedForYarn
  /\ probe = {FALSE}
  /\ Len(commands) >= 2
  /\ commands[2].cmd = "npm"

\* C5: with the yarn backend, when the bulk install fails with an error whose
\* stderr starts with the lockfile-staleness signature, the run fails with an Error
\* whose message is exactly the clarified lockfile message, and no later task is
\* taken up.
C5_LockfileErrorClarified ==
  (tasks.backend = "yarn" /\ status[TaskInstallId] = "failed" /\ ThrownIsLockfileStale) =>
    /\ surfaced = {LockfileError}
    /\ surfaced # thrown
    /\ phase = "failed"
    /\ \A j \in (TaskInstallId + 1)..TaskCleanId : status[j] = "pending"

\* C5 witness: the yarn bulk install failed with the lockfile-staleness error.
C5_Witness ==
  /\ tasks.backend = "yarn"
  /\ status[TaskInstallId] = "failed"
  /\ ThrownIsLockfileStale

\* C6: with the yarn backend, a step failure whose error does not begin with the
\* lockfile-staleness signature is surfaced as that same error, unchanged, for
\* every error a subprocess call can fail with (one without stderr included).
C6_OtherErrorsUnchanged ==
  (tasks.backend = "yarn" /\ thrown # {} /\ ~ThrownIsLockfileStale) => surfaced = thrown

ReadAfterWrite == lastOp.name = "read" /\ \E w \in preWrite : w.ok

C9_WriteIdempotent == Len(written) = 2 => written[1] = written[2]

\* C9 witness: two successive writes of a manifest with several dependencies,
\* which the first write found out of order.
C9_Witness ==
  /\ Len(written) = 2
  /\ Len(written[1].dependencies) >= 2
  /\ lastOp.name = "write"

\* C10: set(key, value) leaves rewrite true; it leaves reinstall true when key is
\* dependencies, devDependencies or peerDependencies, and leaves reinstall as it
\* was for every other key.
C10_SetFlags ==
  [][(lastOp'.name = "set" /\ nops' = nops + 1) =>
       /\ rewrite'
       /\ (lastOp'.key \in {"dependencies", "devDependencies", "peerDependencies"}
             => reinstall')
       /\ (lastOp'.key \notin {"dependencies", "devDependencies", "peerDependencies"}
             => reinstall' = reinstall)]_vars

\* C10 witness: set("peerDependencies", ...) as the first operation, from
\* reinstall = false.
C10_Witness ==
  /\ nops = 1
  /\ lastOp.name = "set"
  /\ lastOp.key = "peerDependencies"
  /\ reinstall
  /\ rewrite

\* The entries of obj under key.
EntriesOf(obj, key) == {e \in Entries(obj) : e[1] = key}

\* The entries of obj under every key but key, in their order.
Others(obj, key) == SelectSeq(obj, LAMBDA e : e[1] # key)

\* C11: addDependency(name, version) leaves exactly the entry name -> version
\* under that name in dependencies, keeps every other entry of dependencies and
\* the whole of devDependencies, and leaves reinstall and rewrite true;
\* addDevDependency does the same with the two maps exchanged.
C11_AddDependencyEffect ==
  [][/\ (lastOp'.name = "addDependency" /\ nops' = nops + 1) =>
          /\ EntriesOf(raw'.dependencies, lastOp'.pkg)
               = {<<lastOp'.pkg, lastOp'.version>>}
          /\ Len(SelectSeq(raw'.dependencies, LAMBDA e : e[1] = lastOp'.pkg)) = 1
          /\ Others(raw'.dependencies, lastOp'.pkg)
               = Others(raw.dependencies, lastOp'.pkg)
          /\ raw'.devDependencies = raw.devDependencies
          /\ reinstall'
          /\ rewrite'
     /\ (lastOp'.name = "addDevDependency" /\ nops' = nops + 1) =>
          /\ EntriesOf(raw'.devDependencies, lastOp'.pkg)
               = {<<lastOp'.pkg, lastOp'.version>>}
          /\ Len(SelectSeq(raw'.devDependencies, LAMBDA e : e[1] = lastOp'.pkg)) = 1
          /\ Others(raw'.devDependencies, lastOp'.pkg)
               = Others(raw.devDependencies, lastOp'.pkg)
          /\ raw'.dependencies = raw.dependencies
          /\ reinstall'
          /\ rewrite']_vars

\* C11 witness: addDependency overwrote the version of a package that was in
\* dependencies next to another package.
C11_Witness ==
  /\ lastOp.name = "addDependency"
  /\ lastOp.pkg = PkgA
  /\ lastOp.version = VCaret
  /\ <<PkgA, VCaret>> \in Entries(raw.dependencies)
  /\ <<PkgB, V100>> \in Entries(raw.dependencies)
  /\ reinstall
  /\ rewrite

\* The step is a write() whose writeFileSync throws, called directly or as the
\* "Write package.json" task.
WriteFailsStep ==
  \/ lastOp'.name = "write" /\ nops' = nops + 1 /\ ~lastOp'.ok
  \/ /\ lastOp'.name = "taskWrite"
     /\ status[TaskWriteId] = "pending"
     /\ status'[TaskWriteId] = "failed"

\* C12: rewrite is true after every mutation of the manifest, and a write()
\* that fails while writing the file leaves rewrite true.
C12_FailedWriteKeepsRewrite ==
  [][/\ (nops' = nops + 1
         /\ lastOp'.name \in {"addDependency", "addDevDependency", "addDependencies",
                              "addDevDependencies", "addScript", "add", "set"})
          => rewrite'
     /\ (rewrite /\ WriteFailsStep) => rewrite']_vars

\* The three fields that hold dependencies.
DependencyFields == {"dependencies", "devDependencies", "peerDependencies"}

\* The step is a call of a mutator that sets reinstall.
DependencyMutatorStep ==
  /\ nops' = nops + 1
  /\ \/ lastOp'.name \in {"addDependency", "addDevDependency"}
     \/ lastOp'.name \in {"addDependencies", "addDevDependencies"}
          /\ lastOp'.modules # <<>>
     \/ lastOp'.name = "set" /\ lastOp'.key \in DependencyFields

\* reinstall goes from true to false only in the Clean task, which ends a cycle
\* whose every step succeeded, was skipped or was not enabled.
ReinstallClearedOnlyByClean ==
  (reinstall /\ ~reinstall') =>
     /\ lastOp'.name = "taskClean"
     /\ phase' = "done"
     /\ \A i \in TaskIds : status'[i] \in {"done", "skipped", "disabled"}

\* C13: reinstall is true after addDependency, addDevDependency,
\* addDependencies, addDevDependencies and set(key, ...) with key one of
\* dependencies, devDependencies, peerDependencies; add(key, ...) leaves
\* reinstall as it was, whatever the key; once true, reinstall stays true through
\* every operation until the Clean task of an install cycle that completes.
C13_ReinstallSetAndKept ==
  [][/\ DependencyMutatorStep => reinstall'
     /\ (nops' = nops + 1 /\ lastOp'.name = "add") => reinstall' = reinstall
     /\ ReinstallClearedOnlyByClean]_vars

\* C13 as stated: add(key, ...) with a dependency field as key sets reinstall
\* like the other mutators do.
C13_EveryMutatorSetsReinstall ==
  [][/\ DependencyMutatorStep => reinstall'
     /\ (nops' = nops + 1 /\ lastOp'.name = "add" /\ lastOp'.key \in DependencyFields)
          => reinstall'
     /\ ReinstallClearedOnlyByClean]_vars

\* C13 witness: a dependency was added, the install cycle that followed failed
\* in its bulk install, and reinstall is still true.
C13_Witness ==
  /\ phase = "failed"
  /\ status[TaskInstallId] = "failed"
  /\ reinstall
  /\ \E e \in Entries(raw.dependencies) : e = <<PkgB, V100>>
  /\ nops >= 1

\* The package name an install target stands for: the target up to its first
\* "@" that is not its first character, the whole target when there is none.
TargetName(target) ==
  LET ats == {i \in 2..Len(target) : target[i] = "@"}
  IN  IF ats = {} THEN target
      ELSE SubSeq(target, 1, (CHOOSE i \in ats : \A j \in ats : i <= j) - 1)

\* The two partitions of a dependency map split its key set.
PartitionsSplitKeys(obj) ==
  LET valid == mapPackagesWithValidVersion(obj)
      targets == mapPackagesWithInvalidVersion(obj)
      names == {TargetName(targets[i]) : i \in 1..Len(targets)}
  IN  /\ Keys(valid) \cap names = {}
      /\ Keys(valid) \cup names = Keys(obj)
      /\ Len(valid) + Len(targets) = Len(obj)
      /\ Entries(valid) \subseteq Entries(obj)

\* C14: for the dependencies and the devDependencies of the manifest, the keys
\* of mapPackagesWithValidVersion and the package names of the targets of
\* mapPackagesWithInvalidVersion are disjoint, together they are the keys of the
\* map, and every entry of the valid partition is an entry of the map, with its
\* version string unchanged.
C14_PartitionsSplitKeys ==
  /\ PartitionsSplitKeys(raw.dependencies)
  /\ PartitionsSplitKeys(raw.devDependencies)

\* C14 witness: dependencies hold two versions and "latest", and
\* devDependencies hold a tag.
C14_Witness ==
  /\ Len(mapPackagesWithValidVersion(raw.dependencies)) >= 2
  /\ \E e \in Entries(raw.dependencies) : e[2] = VLatest
  /\ \E e \in Entries(raw.devDependencies) : e[2] = VNext

\* The install target of a placeholder entry: the name for "latest", else
\* name@version.
TargetOf(e) == IF e[2] = VLatest THEN e[1] ELSE e[1] \o <<"@">> \o e[2]

\* One target for each entry of obj whose version is no exact version, in the
\* order of the entries.
TargetsOf(obj) ==
  LET placeholders == SelectSeq(obj, LAMBDA e : ~SemverValid(e[2]))
  IN  [i \in 1..Len(placeholders) |-> TargetOf(placeholders[i])]

\* The command adds dependencies (dev = FALSE) or devDependencies (dev = TRUE).
IsAddCommand(c, dev) ==
  \/ c.cmd = "npm" /\ Len(c.flags) >= 2 /\ c.flags[1] = "install"
       /\ c.flags[2] = (IF dev THEN "--save-dev" ELSE "--save")
  \/ c.cmd = "yarn" /\ c.flags # <<>> /\ c.flags[1] = "add"
       /\ (dev <=> (Len(c.flags) >= 2 /\ c.flags[2] = "-D"))

\* C15: the task list install() builds holds one target for each placeholder
\* entry of the manifest, the bare name for the version "latest" and
\* name@version otherwise, and the add command of either backend receives
\* exactly these targets.
C15_OneTargetPerPlaceholder ==
  /\ (phase = "built" /\ lastOp.name = "install") =>
        /\ tasks.deps = TargetsOf(raw.dependencies)
        /\ tasks.devDeps = TargetsOf(raw.devDependencies)
  /\ \A k \in 1..Len(commands) :
        /\ IsAddCommand(commands[k], FALSE) => commands[k].targets = tasks.deps
        /\ IsAddCommand(commands[k], TRUE) => commands[k].targets = tasks.devDeps

\* C15 witness: the add-dependencies step of the npm backend runs with the one
\* target "a" for the entry a: "latest".
C15_Witness ==
  /\ phase = "running"
  /\ status[TaskAddId] = "running"
  /\ tasks.backend = "npm"
  /\ <<PkgA, VLatest>> \in Entries(raw.dependencies)
  /\ commands[Len(commands)].cmd = "npm"
  /\ commands[Len(commands)].targets = <<PkgA>>

\* C16: when the script run fails and ignoreError is true, the subscriber of
\* runScript() sees completion with no value and no error; when it fails and
\* ignoreError is false, the subscriber sees that error; when the run succeeds,
\* the subscriber sees its result, whatever ignoreError is. The script runs as
\* npm run <name> in the project directory.
C16_RunScriptIgnoreError ==
  lastOp.name = "runScript" =>
    /\ (lastOp.source.error # {} /\ lastOp.ignoreError) =>
          lastOp.observed.values = <<>> /\ lastOp.observed.error = {}
    /\ (lastOp.source.error # {} /\ ~lastOp.ignoreError) =>
          lastOp.observed.error = lastOp.source.error
    /\ lastOp.source.error = {} => lastOp.observed = lastOp.source
    /\ lastOp.command.cmd = "npm"
    /\ lastOp.command.args[1] = "run"
    /\ lastOp.command.cwd = rootDir

\* C16 witness: a failing script run under ignoreError = true, observed as a
\* completion without error.
C16_Witness ==
  /\ lastOp.name = "runScript"
  /\ lastOp.ignoreError
  /\ lastOp.source.error # {}
  /\ lastOp.observed.error = {}

\* The install cycle runs with reinstall = false and a task list built from a
\* manifest without placeholder entries.
ScriptsOnlyCycle ==
  /\ phase = "running"
  /\ ~reinstall
  /\ tasks.deps = <<>>
  /\ tasks.devDeps = <<>>

\* C17: addScript(name, command) leaves exactly the entry name -> command under
\* that name in scripts and rewrite true, and leaves reinstall, dependencies,
\* devDependencies and the other scripts as they were; an install cycle that runs
\* with reinstall false and without placeholder entries issues no install or add
\* command, only the probe of yarn if any, and its "Write package.json" task,
\* found with rewrite true, runs write().
C17_AddScriptFrame ==
  /\ [][(lastOp'.name = "addScript" /\ nops' = nops + 1) =>
          /\ EntriesOf(raw'.scripts, lastOp'.task) = {<<lastOp'.task, lastOp'.cmd>>}
          /\ Others(raw'.scripts, lastOp'.task) = Others(raw.scripts, lastOp'.task)
          /\ rewrite'
          /\ reinstall' = reinstall
          /\ raw'.dependencies = raw.dependencies
          /\ raw'.devDependencies = raw.devDependencies]_vars
  /\ [](ScriptsOnlyCycle =>
          /\ \A k \in 1..Len(commands) : commands[k] = ProbeCommand
          /\ \A i \in {TaskInstallId, TaskAddId, TaskAddDevId} :
               status[i] \in {"pending", "skipped"})
  /\ [][(phase = "running" /\ rewrite /\ status[TaskWriteId] = "pending"
           /\ status'[TaskWriteId] # "pending") =>
          /\ status'[TaskWriteId] \in {"done", "failed"}
          /\ status'[TaskWriteId] = "done" => disk'[rootDir] = {WriteJson(raw)}]_vars

\* C17 witness: after addScript("build", "tsc") an install cycle wrote the
\* manifest with the script, skipped its three package-manager steps and
\* completed.
C17_Witness ==
  /\ phase = "done"
  /\ status[TaskWriteId] = "done"
  /\ \A i \in {TaskInstallId, TaskAddId, TaskAddDevId} : status[i] = "skipped"
  /\ \A k \in 1..Len(commands) : commands[k] = ProbeCommand
  /\ \E f \in disk[rootDir] : <<"build", "tsc">> \in Entries(f.scripts)

\* The template s from position i on, with every {{token}} replaced by the
\* value of token in scope, and by nothing when scope has no such value.
RECURSIVE ResolvedFrom(_, _, _)
ResolvedFrom(s, i, scope) ==
  IF i > Len(s) THEN <<>>
  ELSE LET end == MatchEnd(s, i)
           value == getValue(SubSeq(s, i + 2, end - 2), scope)
       IN  IF end = 0 THEN <<s[i]>> \o ResolvedFrom(s, i + 1, scope)
           ELSE (IF value = {} THEN <<>> ELSE StringOf(value))
                  \o ResolvedFrom(s, end + 1, scope)

\* Every module of the last bulk call is stored in obj under its resolved
\* version.
StoredResolved(obj) ==
  \A n \in 1..Len(lastOp.modules) :
     <<lastOp.modules[n][1], ResolvedFrom(lastOp.modules[n][2], 1, lastOp.scope)>>
       \in Entries(obj)

\* C18: after addDependencies(modules, ctx) and addDevDependencies(modules,
\* scope), every module is stored under its template with each {{token}}
\* replaced by the value under the dotted path token of the scope, and by the
\* empty string when the scope has no value there, {{tsedVersion}} included.
C18_TemplatesResolved ==
  /\ lastOp.name = "addDependencies" => StoredResolved(raw.dependencies)
  /\ lastOp.name = "addDevDependencies" => StoredResolved(raw.devDependencies)

\* The entries of a field of a manifest file, none when the file lacks the field.
FileEntries(f, key) == IF key \in DOMAIN f THEN Entries(f[key]) ELSE {}

\* Every entry of obj with an exact version is in the manifest file of the
\* project directory, under the field key.
OnDisk(obj, key) ==
  \A e \in Entries(mapPackagesWithValidVersion(obj)) :
     \E f \in disk[rootDir] : e \in FileEntries(f, key)

\* C19: while the bulk-install step of an install cycle runs, the manifest file
\* holds every dependency and devDependency with an exact version that the
\* manifest in memory holds.
C19_InstallSeesMemoryOnDisk ==
  status[TaskInstallId] = "running" =>
    /\ OnDisk(raw.dependencies, "dependencies")
    /\ OnDisk(raw.devDependencies, "devDependencies")

\* The members of a list.
Members(list) == {list[i] : i \in 1..Len(list)}

\* Step i of the running cycle was decided: it was skipped, or its command was
\* issued.
Decided(i) == phase = "running" /\ status[i] \in {"skipped", "running"}

\* C20: when the add-dependencies or add-devDependencies step of an install
\* cycle is skipped or started, its targets are those of the placeholder
\* entries the manifest holds at that time; when the bulk-install step is
\* skipped or started, it is skipped exactly when reinstall is false at that
\* time.
C20_StepsSeeStateAtExecution ==
  /\ Decided(TaskAddId) =>
        /\ Members(tasks.deps) = Members(mapPackagesWithInvalidVersion(raw.dependencies))
        /\ status[TaskAddId] = "skipped" <=> Members(tasks.deps) = {}
  /\ Decided(TaskAddDevId) =>
        /\ Members(tasks.devDeps)
             = Members(mapPackagesWithInvalidVersion(raw.devDependencies))
        /\ status[TaskAddDevId] = "skipped" <=> Members(tasks.devDeps) = {}
  /\ Decided(TaskInstallId) => (status[TaskInstallId] = "skipped" <=> ~reinstall)

\* The command is the bulk install of its backend.
IsBulkInstall(c) ==
  \/ c.cmd = "yarn" /\ Len(c.flags) >= 2 /\ c.flags[1] = "install"
       /\ c.flags[2] = "--production=false"
  \/ c.cmd = "npm" /\ Len(c.flags) >= 2 /\ c.flags[1] = "install"
       /\ c.flags[2] = "--no-production"

\* The bulk-install commands issued so far in the cycle.
BulkInstalls(cmds) == {k \in 1..Len(cmds) : IsBulkInstall(cmds[k])}

\* The step reaches task i: the task leaves its pending status.
Reaches(i) == phase = "running" /\ status[i] = "pending" /\ status'[i] # "pending"

\* C21: when an install cycle reaches its bulk-install step with reinstall
\* true, the step starts and issues the bulk install of its backend (yarn install
\* --production=false, npm install --no-production) without targets; when it
\* reaches the step with reinstall false, the step is skipped and no command is
\* issued; no other step issues a bulk install.
C21_BulkInstallIffReinstall ==
  /\ [][Reaches(TaskInstallId) =>
          /\ reinstall =>
               /\ status'[TaskInstallId] = "running"
               /\ Len(commands') = Len(commands) + 1
               /\ IsBulkInstall(commands'[Len(commands')])
               /\ commands'[Len(commands')].cmd = tasks.backend
               /\ commands'[Len(commands')].targets = <<>>
          /\ ~reinstall =>
               /\ status'[TaskInstallId] = "skipped"
               /\ commands' = commands]_vars
  /\ [][~Reaches(TaskInstallId) => BulkInstalls(commands') \subseteq BulkInstalls(commands)]_vars
  /\ [](status[TaskInstallId] \in {"pending", "skipped", "disabled"}
          => BulkInstalls(commands) = {})

\* C21 witness: the bulk install of the npm backend runs, reinstall being true.
C21_Witness ==
  /\ phase = "running"
  /\ status[TaskInstallId] = "running"
  /\ reinstall
  /\ tasks.backend = "npm"
  /\ IsBulkInstall(commands[Len(commands)])

\* Task i, reached with the target list targets, is skipped without a command
\* when the list is empty, and otherwise starts and issues the add command of
\* its backend (with the dev flag when dev is TRUE) over exactly that list.
AddStepRuns(i, targets, dev) ==
  Reaches(i) =>
    /\ targets = <<>> =>
         /\ status'[i] = "skipped"
         /\ commands' = commands
    /\ targets # <<>> =>
         /\ status'[i] = "running"
         /\ Len(commands') = Len(commands) + 1
         /\ IsAddCommand(commands'[Len(commands')], dev)
         /\ ~IsAddCommand(commands'[Len(commands')], ~dev)
         /\ commands'[Len(commands')].cmd = tasks.backend
         /\ commands'[Len(commands')].targets = targets

\* C22: the task list install() builds holds, for the add-dependencies step,
\* exactly the targets of the placeholder entries of dependencies and, for the
\* add-devDependencies step, exactly those of devDependencies, and keeps them
\* while the cycle runs; in both backends each step, when reached, is skipped
\* exactly when its list is empty, whatever reinstall is, and otherwise issues
\* the backend's add command over its list, with -D (yarn) or --save-dev (npm)
\* for devDependencies and without it for dependencies.
C22_AddStepsTargets ==
  /\ [][(lastOp'.name = "install" /\ ninstalls' = ninstalls + 1) =>
          /\ tasks'.deps = TargetsOf(raw.dependencies)
          /\ tasks'.devDeps = TargetsOf(raw.devDependencies)]_vars
  /\ [][phase = "running" => tasks' = tasks]_vars
  /\ [][AddStepRuns(TaskAddId, tasks.deps, FALSE)]_vars
  /\ [][AddStepRuns(TaskAddDevId, tasks.devDeps, TRUE)]_vars

\* C22 witness: with reinstall false the bulk install was skipped, the
\* add-dependencies step ran over the one placeholder entry of dependencies, and
\* the add-devDependencies step was skipped for want of targets.
C22_Witness ==
  /\ phase = "running"
  /\ ~reinstall
  /\ status[TaskInstallId] = "skipped"
  /\ status[TaskAddId] = "done"
  /\ status[TaskAddDevId] = "skipped"
  /\ tasks.deps = <<PkgA>>
  /\ \E k \in 1..Len(commands) :
       IsAddCommand(commands[k], FALSE) /\ commands[k].targets = <<PkgA>>

====
